---------------------------- MODULE Spec2Model ----------------------------
(***************************************************************************)
(* Model of app.py, the Virtual Journal / Data Humanism visualiser: a      *)
(* Streamlit script that builds a prompt from journal text or an uploaded  *)
(* table, asks Gemini for PaperScript, wraps the answer in an HTML page    *)
(* and renders it.                                                         *)
(*                                                                         *)
(* Text is a sequence of tokens.  A token is a record [k, v]: k is the     *)
(* token's kind ("text", "ws", "nl", "tag", "canvas", "script_open",       *)
(* "script_close") and v its payload, so that inserting, searching and     *)
(* counting work on what the strings contain.  An optional value is a      *)
(* sequence of length 0 (absent) or 1.  The faulty variants defined next   *)
(* to some operators show that the properties tell them apart.             *)
(*                                                                         *)
(* pandas is taken at a version that accepts the keyword                   *)
(* datetime_is_numeric of DataFrame.describe (1.1 to 1.5), the one the     *)
(* call at app.py:150 is written for.                                      *)
(***************************************************************************)
EXTENDS Integers, Sequences, FiniteSets, TLC

VARIABLES
    GEMINI_API_KEY,   \* app.py:16, read once from the environment
    mode,             \* app.py:257, sidebar radio
    context_type,     \* app.py:270, selectbox
    user_text,        \* app.py:275, text area
    uploaded,         \* app.py:298, file uploader: optional file
    df,               \* app.py:307-312, the script's variable df
    max_rows,         \* app.py:140, summarize_dataframe's parameter
    summary,          \* what the last call of summarize_dataframe gave
    prompt,           \* app.py:286/320, optional prompt
    paperscript,      \* app.py:287/321, optional script text
    canvas_id,        \* app.py:50, build_paper_html's parameter
    html,             \* app.py:293/327, optional document handed to components.html
    calls,            \* the functions called in answer to the last event, in order
    requests,         \* the requests sent to the remote model in answer to it, each
                      \* with what the remote model did with it
    messages,         \* st.error / st.warning / st.info of the last run
    raised,           \* the exception that left the last run ("" if none)
    event             \* the user's action that the state answers

vars == <<GEMINI_API_KEY, mode, context_type, user_text, uploaded, df, max_rows,
          summary, prompt, paperscript, canvas_id, html, calls, requests,
          messages, raised, event>>

(***************************************************************************)
(* Bounds of the model.                                                    *)
(***************************************************************************)
MaxTextLen == 2
MaxScriptLen == 2
MaxRows == 3
MaxK == 3

(***************************************************************************)
(* Tokens and text.                                                        *)
(***************************************************************************)
T(s) == [k |-> "text", v |-> s]
Ws == [k |-> "ws", v |-> " "]
Tag(s) == [k |-> "tag", v |-> s]
CanvasTag(id) == [k |-> "canvas", v |-> id]
ScriptOpen(attr) == [k |-> "script_open", v |-> attr]
ScriptClose == [k |-> "script_close", v |-> ""]

None == <<>>
Some(x) == <<x>>

SeqsUpTo(S, n) == UNION {[1..m -> S] : m \in 0..n}

RECURSIVE Concat(_)
Concat(ss) == IF ss = <<>> THEN <<>> ELSE Head(ss) \o Concat(Tail(ss))

IsSubstring(s, t) ==
    \E i \in 0..(Len(t) - Len(s)) : SubSeq(t, i + 1, i + Len(s)) = s

Occurrences(s, t) ==
    Cardinality({i \in 0..(Len(t) - Len(s)) : SubSeq(t, i + 1, i + Len(s)) = s})

IsMarkup(tok) == tok.k \in {"tag", "canvas", "script_open", "script_close"}

MarkupCount(t) == Cardinality({i \in 1..Len(t) : IsMarkup(t[i])})


(***************************************************************************)
(* Python's exception matching: `except C` catches an exception whose      *)
(* class is C or derives from it.                                          *)
(***************************************************************************)
Bases(exc) ==
    {exc, "Exception", "BaseException"}
        \cup (IF exc \in {"ParserError", "EmptyDataError", "UnicodeDecodeError"}
              THEN {"ValueError"} ELSE {})

Catches(handler, exc) == handler \in Bases(exc)

(***************************************************************************)
(* Fallback PaperScript (no API), app.py:200-247.                          *)
(***************************************************************************)
DEFAULT_FALLBACK_PAPERSCRIPT ==
    << T("// Fallback PaperScript demo (no API key found)"),
       T("var W = 900, H = 600; view.viewSize = new Size(W, H);"),
       T("function handCircle(center, radius, strokeCol, fillCol){...}"),
       T("var moon = handCircle(center, 80, ...);"),
       T("var title = new PointText({...});"),
       T("function onFrame(event){...}") >>

(***************************************************************************)
(* What the remote model may do with one request: the call itself raises   *)
(* (transport), or it returns a response whose .text gives a script, or    *)
(* whose .text raises.  google.generativeai's response.text raises         *)
(* ValueError when the response holds no valid part (a blocked or empty    *)
(* candidate); an object without the attribute raises AttributeError.      *)
(***************************************************************************)
ScriptTokens ==
    {T("var p = new Path();"), ScriptClose, CanvasTag("dreamCanvas"), CanvasTag("c2")}

Scripts == SeqsUpTo(ScriptTokens, MaxScriptLen)

ResponseRepr == <<T("<GenerateContentResponse candidates=[]>")>>

RemoteOutcomes ==
    {[call |-> "raises", exc |-> "ServiceUnavailable", access |-> "", text |-> <<>>]}
        \cup {[call |-> "returns", exc |-> "", access |-> "ok", text |-> s] : s \in Scripts}
        \cup {[call |-> "returns", exc |-> "", access |-> a, text |-> <<>>] :
                  a \in {"AttributeError", "ValueError"}}

(***************************************************************************)
(* generate_paperscript, app.py:24-45.  `remote` is what the remote model  *)
(* does if it is called.  The result names the value returned (if any),    *)
(* the exception raised (if any), the calls made and the requests sent.    *)
(***************************************************************************)
GenerateContent(p) == [model |-> "gemini-1.5-pro", prompt |-> p, temperature |-> "0.9"]

TextAccess(remote) ==
    IF remote.access = "ok"
    THEN [value |-> Some(remote.text), raised |-> ""]
    ELSE IF Catches("AttributeError", remote.access)
    THEN [value |-> Some(ResponseRepr), raised |-> ""]
    ELSE [value |-> None, raised |-> remote.access]

\* Faulty variant: the key is not looked at, the remote model is always called.
generate_paperscript_always_remote(p, remote) ==
    IF remote.call = "raises"
    THEN [value |-> None, raised |-> remote.exc,
          calls |-> <<"generate_paperscript", "generate_content">>,
          requests |-> <<[request |-> GenerateContent(p), outcome |-> remote]>>]
    ELSE [value |-> TextAccess(remote).value, raised |-> TextAccess(remote).raised,
          calls |-> <<"generate_paperscript", "generate_content">>,
          requests |-> <<[request |-> GenerateContent(p), outcome |-> remote]>>]

\* Faulty variant: a failed call is caught and answered with the fallback script.
generate_paperscript_swallows(p, remote) ==
    IF GEMINI_API_KEY = "" \/ remote.call = "raises"
    THEN [value |-> Some(DEFAULT_FALLBACK_PAPERSCRIPT), raised |-> "",
          calls |-> <<"generate_paperscript">>
                        \o (IF GEMINI_API_KEY = "" THEN <<>> ELSE <<"generate_content">>),
          requests |-> IF GEMINI_API_KEY = "" THEN <<>>
                       ELSE <<[request |-> GenerateContent(p), outcome |-> remote]>>]
    ELSE [value |-> TextAccess(remote).value, raised |-> TextAccess(remote).raised,
          calls |-> <<"generate_paperscript", "generate_content">>,
          requests |-> <<[request |-> GenerateContent(p), outcome |-> remote]>>]

generate_paperscript(p, remote) ==
    IF GEMINI_API_KEY = ""
    THEN [value |-> Some(DEFAULT_FALLBACK_PAPERSCRIPT), raised |-> "",
          calls |-> <<"generate_paperscript">>, requests |-> <<>>]
    ELSE IF remote.call = "raises"
    THEN [value |-> None, raised |-> remote.exc,
          calls |-> <<"generate_paperscript", "generate_content">>,
          requests |-> <<[request |-> GenerateContent(p), outcome |-> remote]>>]
    ELSE [value |-> TextAccess(remote).value, raised |-> TextAccess(remote).raised,
          calls |-> <<"generate_paperscript", "generate_content">>,
          requests |-> <<[request |-> GenerateContent(p), outcome |-> remote]>>]

(***************************************************************************)
(* build_paper_html, app.py:50-88: the f-string template with canvas_id    *)
(* inserted twice and paperscript_code inserted as it is.                  *)
(***************************************************************************)
HtmlHead ==
    << T("<!DOCTYPE html><html><head><meta charset=UTF-8 />"),
       ScriptOpen("src=paper-full.min.js"), ScriptClose,
       T("<style>html, body {...} canvas {...} #container {...}</style></head>"),
       T("<body><div id=container>") >>

\* Faulty variant: the script is escaped before it is inserted.
Escaped(t) == [i \in 1..Len(t) |-> IF IsMarkup(t[i]) THEN T("&lt;...&gt;") ELSE t[i]]

build_paper_html_escaping(paperscript_code, id) ==
    HtmlHead
        \o << CanvasTag(id), T("</canvas></div>"), ScriptOpen(id) >>
        \o Escaped(paperscript_code)
        \o << ScriptClose, T("</body></html>") >>

build_paper_html(paperscript_code, id) ==
    HtmlHead
        \o << CanvasTag(id), T("</canvas></div>"), ScriptOpen(id) >>
        \o paperscript_code
        \o << ScriptClose, T("</body></html>") >>

(***************************************************************************)
(* build_journal_prompt, app.py:93-138.                                    *)
(***************************************************************************)
ContextTypes == {"dream", "memory", "routine / day", "random thought"}

\* Faulty variant: the journal text is escaped before it is inserted.
build_journal_prompt_escaping(text, ctx) ==
    << T("You are a creative code generator that ONLY outputs PaperScript code (no HTML, no markdown, no explanations). Goal: Turn the following "),
       T(ctx),
       T(" journal text into a hand-drawn-style, animated visualization. Requirements: ... Story context: "),
       T("\"\"\"") >>
        \o Escaped(text)
        \o << T("\"\"\""),
              T("Visual design rules: ... view.viewSize = new Size(1000, 650); PaperScript constraints: Assume Paper.js is already imported. Do not include HTML or "),
              Tag("<script>"),
              T(" tags. Start directly with PaperScript (JavaScript-like) code. ... Output: ONLY valid PaperScript code.") >>

build_journal_prompt(text, ctx) ==
    << T("You are a creative code generator that ONLY outputs PaperScript code (no HTML, no markdown, no explanations). Goal: Turn the following "),
       T(ctx),
       T(" journal text into a hand-drawn-style, animated visualization. Requirements: ... Story context: "),
       T("\"\"\"") >>
        \o text
        \o << T("\"\"\""),
              T("Visual design rules: ... view.viewSize = new Size(1000, 650); PaperScript constraints: Assume Paper.js is already imported. Do not include HTML or "),
              Tag("<script>"),
              T(" tags. Start directly with PaperScript (JavaScript-like) code. ... Output: ONLY valid PaperScript code.") >>

(***************************************************************************)
(* Data frames.  A frame has named, typed columns and an ordered sequence  *)
(* of rows; a cell is a small natural number, rendered by its column's     *)
(* dtype.  Column names are distinct, as read_csv and read_excel make      *)
(* them.                                                                   *)
(***************************************************************************)
ColumnSpecs ==
    {[name |-> T("age"), dtype |-> "int64"],
     [name |-> T("name"), dtype |-> "object"]}

Values == 0..1

ColumnLists ==
    {c \in SeqsUpTo(ColumnSpecs, Cardinality(ColumnSpecs)) :
        \A i, j \in 1..Len(c) : c[i].name = c[j].name => i = j}

Datasets ==
    UNION {{[columns |-> c, rows |-> r] :
                r \in SeqsUpTo([1..Len(c) -> Values], MaxRows)} : c \in ColumnLists}

NL == [k |-> "nl", v |-> "\n"]

Digits == <<"0", "1", "2", "3", "4", "5", "6", "7", "8", "9">>

IntStr(n) == IF n < Len(Digits) THEN T(Digits[n + 1]) ELSE T("10+")

Letters == <<"a", "b">>

CellText(dtype, v) == IF dtype = "int64" THEN IntStr(v) ELSE T(Letters[v + 1])

RECURSIVE Join(_, _)
Join(parts, sep) ==
    IF parts = <<>> THEN <<>>
    ELSE IF Len(parts) = 1 THEN Head(parts)
    ELSE Head(parts) \o sep \o Join(Tail(parts), sep)

\* Faulty variant: head takes one row too many.
DfHead_one_more(d, n) ==
    [columns |-> d.columns,
     rows |-> SubSeq(d.rows, 1, IF n + 1 < Len(d.rows) THEN n + 1 ELSE Len(d.rows))]

\* DataFrame.head(n) for n >= 0: the first n rows, all of them if there are fewer.
DfHead(d, n) ==
    [columns |-> d.columns,
     rows |-> SubSeq(d.rows, 1, IF n < Len(d.rows) THEN n ELSE Len(d.rows))]

\* One line of csv: the cells joined by commas, ended by a newline.
CsvLine(cells) == Join(cells, <<T(",")>>) \o <<NL>>

\* DataFrame.to_csv(index=False): the header line, then one line per row.
ToCsvNoIndex(d) ==
    CsvLine([i \in 1..Len(d.columns) |-> <<d.columns[i].name>>])
        \o Concat([r \in 1..Len(d.rows) |->
                      CsvLine([i \in 1..Len(d.columns) |->
                                  <<CellText(d.columns[i].dtype, d.rows[r][i])>>])])

(***************************************************************************)
(* DataFrame.describe(include="all").to_csv(): one line per statistic, one *)
(* cell per column, an empty cell where the statistic does not apply or    *)
(* has no value (NaN).  The statistics modelled are count, unique, freq,   *)
(* min and max; top, mean, std and the quartiles are further lines of the  *)
(* same shape.  describe raises ValueError on a frame without columns.     *)
(***************************************************************************)
ColumnValues(d, i) == {d.rows[r][i] : r \in 1..Len(d.rows)}

SetMin(S) == CHOOSE x \in S : \A y \in S : x <= y
SetMax(S) == CHOOSE x \in S : \A y \in S : x >= y

Freq(d, i) ==
    SetMax({Cardinality({r \in 1..Len(d.rows) : d.rows[r][i] = v}) : v \in ColumnValues(d, i)})

Stat(d, i, stat) ==
    LET numeric == d.columns[i].dtype = "int64"
        empty == d.rows = <<>>
    IN  CASE stat = "count" -> <<IntStr(Len(d.rows))>>
          [] stat = "unique" ->
                IF numeric THEN <<>> ELSE <<IntStr(Cardinality(ColumnValues(d, i)))>>
          [] stat = "freq" ->
                IF numeric \/ empty THEN <<>> ELSE <<IntStr(Freq(d, i))>>
          [] stat = "min" ->
                IF ~numeric \/ empty THEN <<>> ELSE <<IntStr(SetMin(ColumnValues(d, i)))>>
          [] stat = "max" ->
                IF ~numeric \/ empty THEN <<>> ELSE <<IntStr(SetMax(ColumnValues(d, i)))>>

StatNames(d) ==
    LET dtypes == {d.columns[i].dtype : i \in 1..Len(d.columns)}
    IN  <<"count">>
            \o (IF "object" \in dtypes THEN <<"unique", "freq">> ELSE <<>>)
            \o (IF "int64" \in dtypes THEN <<"min", "max">> ELSE <<>>)

DescribeRaises(d) == IF d.columns = <<>> THEN "ValueError" ELSE ""

DescribeToCsv(d) ==
    CsvLine(<< <<>> >> \o [i \in 1..Len(d.columns) |-> <<d.columns[i].name>>])
        \o Concat([s \in 1..Len(StatNames(d)) |->
                      CsvLine(<< <<T(StatNames(d)[s])>> >>
                                  \o [i \in 1..Len(d.columns) |->
                                         Stat(d, i, StatNames(d)[s])])])

(***************************************************************************)
(* summarize_dataframe, app.py:140-151.  buf is the buffer as the function *)
(* leaves it; value is the string returned, absent when describe raised.   *)
(***************************************************************************)
DefaultMaxRows == 5

ColumnsHeading == T("Columns:")
RowsHeading == T("Example rows:")
StatsHeading == T("Basic stats (where numeric):")

ColumnsLine(d) ==
    Join([i \in 1..Len(d.columns) |->
             <<d.columns[i].name, T(" ("), T(d.columns[i].dtype), T(")")>>],
         <<T(", ")>>)

SummaryUpToStats(d, k) ==
    <<ColumnsHeading, NL>> \o ColumnsLine(d)
        \o <<NL, NL, RowsHeading, NL>> \o ToCsvNoIndex(DfHead(d, k))
        \o <<NL, NL, StatsHeading, NL>>

summarize_dataframe(d, k) ==
    IF DescribeRaises(d) # ""
    THEN [buf |-> SummaryUpToStats(d, k), value |-> None, raised |-> DescribeRaises(d)]
    ELSE [buf |-> SummaryUpToStats(d, k) \o DescribeToCsv(d),
          value |-> Some(SummaryUpToStats(d, k) \o DescribeToCsv(d)),
          raised |-> ""]

(***************************************************************************)
(* build_table_prompt, app.py:153-195.                                     *)
(***************************************************************************)
TablePromptHead ==
    << T("You are a creative code generator that ONLY outputs PaperScript code (no HTML, no markdown, no explanations). Goal: Turn the following tabular dataset into a human, hand-drawn-style grid or table visualization. Dataset summary:"),
       T("----------------") >>

TablePromptTail ==
    << T("----------------"),
       T("Visual design rules: ... view.viewSize = new Size(1100, 700); PaperScript constraints: Assume Paper.js is already imported. Do not include HTML or "),
       Tag("<script>"),
       T(" tags. Start directly with PaperScript code. ... Output: ONLY valid PaperScript code.") >>

build_table_prompt(d) ==
    LET s == summarize_dataframe(d, DefaultMaxRows)
    IN  IF s.raised # ""
        THEN [value |-> None, raised |-> s.raised, summary |-> s,
              calls |-> <<"build_table_prompt", "summarize_dataframe">>]
        ELSE [value |-> Some(TablePromptHead \o s.value[1] \o TablePromptTail),
              raised |-> "", summary |-> s,
              calls |-> <<"build_table_prompt", "summarize_dataframe">>]

(***************************************************************************)
(* The script's variable df (app.py:307-314): not yet bound, None, or a    *)
(* frame.                                                                  *)
(***************************************************************************)
DfUnset == [bound |-> FALSE, val |-> None]
DfNone == [bound |-> TRUE, val |-> None]
DfFrame(d) == [bound |-> TRUE, val |-> Some(d)]

(***************************************************************************)
(* Uploaded files, app.py:298-312.  A file has a name, of which the        *)
(* extension matters, and a content: a table written as csv, a table       *)
(* written as an Excel workbook, or bytes that are neither.                *)
(***************************************************************************)
UploaderTypes == {"csv", "xlsx", "xls"}

Extensions == {"csv", "CSV", "xlsx", "xls", "txt"}

Lower(ext) == IF ext = "CSV" THEN "csv" ELSE ext

\* The scenario of the specification, an empty sheet, and a sheet of headers only.
UploadFrames ==
    { [columns |-> <<>>, rows |-> <<>>],
      [columns |-> <<[name |-> T("age"), dtype |-> "int64"],
                     [name |-> T("name"), dtype |-> "object"]>>,
       rows |-> <<>>],
      [columns |-> <<[name |-> T("age"), dtype |-> "int64"],
                     [name |-> T("name"), dtype |-> "object"]>>,
       rows |-> <<<<0, 0>>, <<1, 1>>>>],
      [columns |-> <<[name |-> Tag("<b>"), dtype |-> "object"]>>,
       rows |-> <<<<1>>>>] }

Contents ==
    {[kind |-> "corrupt", frame |-> None]}
        \cup {[kind |-> k, frame |-> Some(d)] : k \in {"csv", "excel"}, d \in UploadFrames}

Files == [ext : Extensions, content : Contents]

\* pd.read_csv: an empty file has no columns to parse, other bytes do not decode.
read_csv(f) ==
    IF f.content.kind = "csv" /\ f.content.frame[1].columns # <<>>
    THEN [value |-> f.content.frame, raised |-> ""]
    ELSE IF f.content.kind = "csv"
    THEN [value |-> None, raised |-> "EmptyDataError"]
    ELSE [value |-> None, raised |-> "UnicodeDecodeError"]

\* pd.read_excel: reads a workbook, whatever the file is called.
read_excel(f) ==
    IF f.content.kind = "excel"
    THEN [value |-> f.content.frame, raised |-> ""]
    ELSE [value |-> None, raised |-> "ValueError"]

\* Faulty variant: the handler catches the csv parser's errors only.
ReadUploaded_narrow_handler(f) ==
    LET r == IF Lower(f.ext) = "csv" THEN read_csv(f) ELSE read_excel(f)
    IN  IF r.raised = ""
        THEN [df |-> DfFrame(r.value[1]), messages |-> <<>>, raised |-> ""]
        ELSE IF Catches("ParserError", r.raised)
        THEN [df |-> DfNone,
              messages |-> <<[level |-> "error", text |-> "Error reading file: ",
                              detail |-> r.raised]>>,
              raised |-> ""]
        ELSE [df |-> DfUnset, messages |-> <<>>, raised |-> r.raised]

\* app.py:305-312, the try block and its handler.
ReadUploaded(f) ==
    LET r == IF Lower(f.ext) = "csv" THEN read_csv(f) ELSE read_excel(f)
    IN  IF r.raised = ""
        THEN [df |-> DfFrame(r.value[1]), messages |-> <<>>, raised |-> ""]
        ELSE IF Catches("Exception", r.raised)
        THEN [df |-> DfNone,
              messages |-> <<[level |-> "error", text |-> "Error reading file: ",
                              detail |-> r.raised]>>,
              raised |-> ""]
        ELSE [df |-> DfUnset, messages |-> <<>>, raised |-> r.raised]

(***************************************************************************)
(* str.strip(), app.py:282.                                                *)
(***************************************************************************)
TextTokens == {Ws, T("swam"), Tag("<b>")}

Texts == SeqsUpTo(TextTokens, MaxTextLen)

RECURSIVE LStrip(_)
LStrip(t) == IF t # <<>> /\ Head(t).k = "ws" THEN LStrip(Tail(t)) ELSE t

RECURSIVE RStrip(_)
RStrip(t) ==
    IF t # <<>> /\ t[Len(t)].k = "ws" THEN RStrip(SubSeq(t, 1, Len(t) - 1)) ELSE t

\* Faulty variant: the text is tested as it is, not stripped.
Strip_nothing(t) == t

Strip(t) == RStrip(LStrip(t))

(***************************************************************************)
(* One run of the script, app.py:252-339.  Run gives what the run binds,   *)
(* calls, sends, shows and raises.                                         *)
(***************************************************************************)
DefaultCanvasId == "dreamCanvas"

Msg(level, text) == [level |-> level, text |-> text, detail |-> ""]

\* app.py:262-263
SidebarWarning ==
    IF GEMINI_API_KEY = ""
    THEN <<Msg("warning", "No GEMINI_API_KEY found - using fallback static demo.")>>
    ELSE <<>>

Quiet ==
    [df |-> DfUnset, summary |-> None, prompt |-> None, paperscript |-> None,
     html |-> None, calls |-> <<>>, requests |-> <<>>, messages |-> SidebarWarning,
     raised |-> ""]

\* Faulty variant: a failed generation is tried once more.
GenerateAndRender_retrying(base, p, remote) ==
    LET g == generate_paperscript(p, remote)
    IN  IF g.raised # ""
        THEN [base EXCEPT !.prompt = Some(p), !.calls = base.calls \o g.calls \o g.calls,
                          !.requests = g.requests \o g.requests, !.raised = g.raised]
        ELSE [base EXCEPT !.prompt = Some(p), !.paperscript = g.value,
                          !.html = Some(build_paper_html(g.value[1], DefaultCanvasId)),
                          !.calls = base.calls \o g.calls
                                        \o <<"build_paper_html", "components.html">>,
                          !.requests = g.requests]

\* app.py:287-294 and 321-328: generate, then wrap and render what it returned.
GenerateAndRender(base, p, remote) ==
    LET g == generate_paperscript(p, remote)
    IN  IF g.raised # ""
        THEN [base EXCEPT !.prompt = Some(p), !.calls = base.calls \o g.calls,
                          !.requests = g.requests, !.raised = g.raised]
        ELSE [base EXCEPT !.prompt = Some(p), !.paperscript = g.value,
                          !.html = Some(build_paper_html(g.value[1], DefaultCanvasId)),
                          !.calls = base.calls \o g.calls
                                        \o <<"build_paper_html", "components.html">>,
                          !.requests = g.requests]

\* app.py:268-294
JournalRun(text, ctx, clicked, remote) ==
    IF ~clicked
    THEN Quiet
    ELSE IF Strip(text) = <<>>
    THEN [Quiet EXCEPT !.messages = @ \o <<Msg("error", "Please write something first.")>>]
    ELSE GenerateAndRender([Quiet EXCEPT !.calls = <<"build_journal_prompt">>],
                           build_journal_prompt(text, ctx), remote)

\* app.py:296-330
TableRun(up, clicked, remote) ==
    IF up = None
    THEN [Quiet EXCEPT !.messages = @ \o <<Msg("info", "Upload a CSV or Excel file to begin.")>>]
    ELSE LET r == ReadUploaded(up[1])
             read == [Quiet EXCEPT !.df = r.df, !.messages = @ \o r.messages,
                                   !.raised = r.raised]
         IN  IF r.df.val = None \/ ~clicked
             THEN read
             ELSE LET b == build_table_prompt(r.df.val[1])
                  IN  IF b.raised # ""
                      THEN [read EXCEPT !.summary = Some(b.summary), !.calls = b.calls,
                                        !.raised = b.raised]
                      ELSE GenerateAndRender(
                               [read EXCEPT !.summary = Some(b.summary), !.calls = b.calls],
                               b.value[1], remote)

NoRemote == [call |-> "returns", exc |-> "", access |-> "ok", text |-> <<>>]

(***************************************************************************)
(* The application: Streamlit runs the script once at the start and once   *)
(* more for every action of the user on a widget.  Widgets of the mode     *)
(* that is not shown lose their value.                                     *)
(***************************************************************************)
Journal == "Journal / Dream Text"
Table == "Spreadsheet / Tabular Data"

ApiKeys == {"", "an-api-key"}

Answer(run, ev) ==
    /\ df' = run.df
    /\ summary' = run.summary
    /\ prompt' = run.prompt
    /\ paperscript' = run.paperscript
    /\ html' = run.html
    /\ calls' = run.calls
    /\ requests' = run.requests
    /\ messages' = run.messages
    /\ raised' = run.raised
    /\ event' = ev
    /\ UNCHANGED <<GEMINI_API_KEY, max_rows, canvas_id>>

Init ==
    /\ GEMINI_API_KEY \in ApiKeys
    /\ mode = Journal
    /\ context_type = "dream"
    /\ user_text = <<>>
    /\ uploaded = None
    /\ max_rows = DefaultMaxRows
    /\ canvas_id = DefaultCanvasId
    /\ df = DfUnset
    /\ summary = None
    /\ prompt = None
    /\ paperscript = None
    /\ html = None
    /\ calls = <<>>
    /\ requests = <<>>
    /\ messages = SidebarWarning
    /\ raised = ""
    /\ event = "start"

\* app.py:257-260
SelectMode(m) ==
    /\ m # mode
    /\ mode' = m
    /\ context_type' = "dream"
    /\ user_text' = <<>>
    /\ uploaded' = None
    /\ Answer(IF m = Journal THEN JournalRun(<<>>, "dream", FALSE, NoRemote)
              ELSE TableRun(None, FALSE, NoRemote), "select_mode")

\* app.py:270-274
SelectContext(c) ==
    /\ mode = Journal
    /\ c # context_type
    /\ context_type' = c
    /\ UNCHANGED <<mode, user_text, uploaded>>
    /\ Answer(JournalRun(user_text, c, FALSE, NoRemote), "select_context")

\* app.py:275-279
EditText(t) ==
    /\ mode = Journal
    /\ t # user_text
    /\ user_text' = t
    /\ UNCHANGED <<mode, context_type, uploaded>>
    /\ Answer(JournalRun(t, context_type, FALSE, NoRemote), "edit_text")

\* app.py:281-294
ClickGenerateVisual(remote) ==
    /\ mode = Journal
    /\ UNCHANGED <<mode, context_type, user_text, uploaded>>
    /\ Answer(JournalRun(user_text, context_type, TRUE, remote), "click_generate_visual")

\* app.py:298-316: the uploader takes a file of one of its types
UploadFile(f) ==
    /\ mode = Table
    /\ Lower(f.ext) \in UploaderTypes
    /\ uploaded' = Some(f)
    /\ UNCHANGED <<mode, context_type, user_text>>
    /\ Answer(TableRun(Some(f), FALSE, NoRemote), "upload")

\* app.py:298-301: the uploader refuses a file of another type; the script does not run
RejectFile(f) ==
    /\ mode = Table
    /\ Lower(f.ext) \notin UploaderTypes
    /\ UNCHANGED <<mode, context_type, user_text, uploaded>>
    /\ Answer([Quiet EXCEPT !.messages =
                   <<[level |-> "error", text |-> "files are not allowed.",
                      detail |-> f.ext]>>], "upload_rejected")

\* app.py:329-330
RemoveFile ==
    /\ mode = Table
    /\ uploaded # None
    /\ uploaded' = None
    /\ UNCHANGED <<mode, context_type, user_text>>
    /\ Answer(TableRun(None, FALSE, NoRemote), "remove_file")

\* app.py:314-318: the button is there when the run before bound df to a frame
GridButtonShown ==
    /\ mode = Table
    /\ uploaded # None
    /\ ReadUploaded(uploaded[1]).df.val # None

\* app.py:318-328
ClickGenerateGrid(remote) ==
    /\ GridButtonShown
    /\ UNCHANGED <<mode, context_type, user_text, uploaded>>
    /\ Answer(TableRun(uploaded, TRUE, remote), "click_generate_grid")

Next ==
    \/ \E m \in {Journal, Table} : SelectMode(m)
    \/ \E c \in ContextTypes : SelectContext(c)
    \/ \E t \in Texts : EditText(t)
    \/ \E remote \in RemoteOutcomes : ClickGenerateVisual(remote)
    \/ \E f \in Files : UploadFile(f)
    \/ \E f \in Files : RejectFile(f)
    \/ RemoveFile
    \/ \E remote \in RemoteOutcomes : ClickGenerateGrid(remote)

Spec == Init /\ [][Next]_vars

(***************************************************************************)
(* build_paper_html as a function of its two arguments.                    *)
(***************************************************************************)
CanvasIds == {"dreamCanvas", "c2", "sky"}

InitWrap ==
    /\ GEMINI_API_KEY = ""
    /\ mode = Journal
    /\ context_type = "dream"
    /\ user_text = <<>>
    /\ uploaded = None
    /\ max_rows = DefaultMaxRows
    /\ canvas_id \in CanvasIds
    /\ df = DfUnset
    /\ summary = None
    /\ prompt = None
    /\ paperscript \in {Some(s) : s \in Scripts}
    /\ html = None
    /\ calls = <<>>
    /\ requests = <<>>
    /\ messages = <<>>
    /\ raised = ""
    /\ event = "arguments"

Wrap ==
    /\ event = "arguments"
    /\ html' = Some(build_paper_html(paperscript[1], canvas_id))
    /\ calls' = <<"build_paper_html">>
    /\ event' = "build_paper_html"
    /\ UNCHANGED <<GEMINI_API_KEY, mode, context_type, user_text, uploaded, df, max_rows,
                   summary, prompt, paperscript, canvas_id, requests, messages, raised>>

SpecWrap == InitWrap /\ [][Wrap]_vars

(***************************************************************************)
(* summarize_dataframe as a function of its two arguments.                 *)
(***************************************************************************)
InitSummarize ==
    /\ GEMINI_API_KEY = ""
    /\ mode = Table
    /\ context_type = "dream"
    /\ user_text = <<>>
    /\ uploaded = None
    /\ max_rows \in 0..MaxK
    /\ canvas_id = DefaultCanvasId
    /\ df \in {DfFrame(d) : d \in Datasets}
    /\ summary = None
    /\ prompt = None
    /\ paperscript = None
    /\ html = None
    /\ calls = <<>>
    /\ requests = <<>>
    /\ messages = <<>>
    /\ raised = ""
    /\ event = "arguments"

Summarize ==
    /\ event = "arguments"
    /\ summary' = Some(summarize_dataframe(df.val[1], max_rows))
    /\ raised' = summarize_dataframe(df.val[1], max_rows).raised
    /\ calls' = <<"summarize_dataframe">>
    /\ event' = "summarize_dataframe"
    /\ UNCHANGED <<GEMINI_API_KEY, mode, context_type, user_text, uploaded, df, max_rows,
                   prompt, paperscript, canvas_id, html, requests, messages>>

SpecSummarize == InitSummarize /\ [][Summarize]_vars

(***************************************************************************)
(* Properties.                                                             *)
(***************************************************************************)
Range(f) == {f[i] : i \in DOMAIN f}

IsBlank(t) == \A i \in 1..Len(t) : t[i].k = "ws"

IsPrefix(s, t) == Len(s) <= Len(t) /\ SubSeq(t, 1, Len(s)) = s

Called(fn) == fn \in Range(calls)

Shown(level, text) == \E i \in 1..Len(messages) : messages[i].level = level /\ messages[i].text = text

\* The canvas elements with identifier id that an HTML parser finds in doc: inside a
\* script element everything up to the next closing script tag is text, not markup.
RECURSIVE CanvasElementsFrom(_, _, _)
CanvasElementsFrom(inScript, doc, id) ==
    IF doc = <<>> THEN 0
    ELSE IF inScript
    THEN CanvasElementsFrom(Head(doc).k # "script_close", Tail(doc), id)
    ELSE (IF Head(doc).k = "canvas" /\ Head(doc).v = id THEN 1 ELSE 0)
            + CanvasElementsFrom(Head(doc).k = "script_open", Tail(doc), id)

CanvasElements(doc, id) == CanvasElementsFrom(FALSE, doc, id)

\* C1: without a credential every call of generate_paperscript returns exactly
\* DEFAULT_FALLBACK_PAPERSCRIPT, whatever the prompt, and no request is sent to the
\* remote model in any run.
C1_NoKeyFallback ==
    GEMINI_API_KEY = "" =>
        /\ requests = <<>>
        /\ ~Called("generate_content")
        /\ Called("generate_paperscript") =>
               paperscript = Some(DEFAULT_FALLBACK_PAPERSCRIPT)

C1_Witness ==
    /\ GEMINI_API_KEY = ""
    /\ Called("generate_paperscript")
    /\ MarkupCount(user_text) > 0
    /\ html = Some(build_paper_html(DEFAULT_FALLBACK_PAPERSCRIPT, DefaultCanvasId))

\* C2 as stated: the output of build_paper_html(script, id) contains exactly one canvas
\* element whose id is id, and contains script as a contiguous substring, for every
\* script, markup included.
C2_ExactlyOneCanvas ==
    event = "build_paper_html" =>
        /\ CanvasElements(html[1], canvas_id) = 1
        /\ IsSubstring(paperscript[1], html[1])

\* C2 amended: the output contains script unchanged as a contiguous substring; the
\* template contributes exactly one canvas element with the id, so the output has
\* exactly one when script holds no closing script tag, and otherwise one more for
\* every canvas tag with that id that script places after closing its script element.
C2_OneCanvasPlusScripts ==
    event = "build_paper_html" =>
        /\ IsSubstring(paperscript[1], html[1])
        /\ CanvasElements(html[1], canvas_id)
               = 1 + CanvasElementsFrom(TRUE, paperscript[1], canvas_id)
        /\ ScriptClose \notin Range(paperscript[1]) =>
               CanvasElements(html[1], canvas_id) = 1

C2_Witness ==
    /\ event = "build_paper_html"
    /\ paperscript = Some(<<ScriptClose, CanvasTag(canvas_id)>>)
    /\ CanvasElements(html[1], canvas_id) = 2

\* C3: in journal mode a click on Generate with empty or whitespace-only text is
\* answered with an error message and calls none of build_journal_prompt,
\* generate_paperscript and build_paper_html; generation is only ever called with
\* text that is not blank.
C3_BlankRejected ==
    /\ (event = "click_generate_visual" /\ IsBlank(user_text)) =>
           /\ Shown("error", "Please write something first.")
           /\ calls = <<>>
           /\ requests = <<>>
           /\ prompt = None /\ paperscript = None /\ html = None
    /\ (mode = Journal /\ (Called("generate_paperscript") \/ Called("build_journal_prompt"))) =>
           ~IsBlank(user_text)

C3_Witness ==
    /\ event = "click_generate_visual"
    /\ user_text = <<Ws, Ws>>
    /\ Shown("error", "Please write something first.")

\* What the reader chosen by the file's name does with the file's content.
FailsToParse(f) ==
    IF Lower(f.ext) = "csv" THEN read_csv(f).raised # "" ELSE read_excel(f).raised # ""

\* C4: in table mode a file with an unsupported extension or with content that does
\* not parse is answered with an error message, df stays unset (None), none of
\* summarize_dataframe, build_table_prompt and generate_paperscript is reached, and
\* no exception leaves the script.
C4_UploadErrors ==
    /\ event = "upload_rejected" =>
           /\ Shown("error", "files are not allowed.")
           /\ df.val = None
           /\ calls = <<>> /\ requests = <<>> /\ raised = ""
    /\ (mode = Table /\ uploaded # None /\ FailsToParse(uploaded[1])) =>
           /\ event \in {"upload", "upload_rejected"}
           /\ event = "upload" =>
                  /\ Shown("error", "Error reading file: ")
                  /\ df = DfNone
                  /\ calls = <<>> /\ requests = <<>> /\ raised = ""
                  /\ ~GridButtonShown
    /\ (Called("summarize_dataframe") \/ Called("build_table_prompt")) => df.val # None

C4_Witness ==
    /\ event = "upload"
    /\ uploaded # None
    /\ uploaded[1].ext = "xlsx"
    /\ uploaded[1].content.kind = "corrupt"
    /\ df = DfNone
    /\ Shown("error", "Error reading file: ")

\* C5 as stated: with a credential, when the remote call returns a response whose
\* text accessor is unavailable, generate_paperscript raises nothing and returns the
\* string conversion of the response.
C5_ShapeNeverRaises ==
    \A i \in 1..Len(requests) :
        (requests[i].outcome.call = "returns" /\ requests[i].outcome.access # "ok") =>
            /\ raised = ""
            /\ paperscript = Some(ResponseRepr)

\* The lines of a csv text: what each newline ends.
RECURSIVE Lines(_)
Lines(t) ==
    IF t = <<>> THEN <<>>
    ELSE LET n == CHOOSE i \in 1..Len(t) : t[i] = NL /\ \A j \in 1..(i - 1) : t[j] # NL
         IN  <<SubSeq(t, 1, n - 1)>> \o Lines(SubSeq(t, n + 1, Len(t)))

PositionOf(tok, t) == CHOOSE i \in 1..Len(t) : t[i] = tok

\* The row-sample section of a summary: what stands between the heading of the
\* example rows and the two newlines before the heading of the statistics.
SampleSection(buf) ==
    SubSeq(buf, PositionOf(RowsHeading, buf) + 2, PositionOf(StatsHeading, buf) - 3)

\* The data rows of the sample: its lines after the header line.
SampleRows(buf) == Tail(Lines(SampleSection(buf)))

RowLine(d, r) ==
    Join([i \in 1..Len(d.columns) |-> <<CellText(d.columns[i].dtype, d.rows[r][i])>>],
         <<T(",")>>)

Min(a, b) == IF a < b THEN a ELSE b

\* C6: the row-sample section of summarize_dataframe(D, k), k >= 0, holds at most
\* min(k, rowcount(D)) data rows, and they are the leading rows of D in their order.
C6_SampleIsLeadingRows ==
    event = "summarize_dataframe" =>
        LET d == df.val[1]
            sample == SampleRows(summary[1].buf)
        IN  /\ Len(sample) <= Min(max_rows, Len(d.rows))
            /\ \A r \in 1..Len(sample) : sample[r] = RowLine(d, r)
            /\ Len(sample) = Min(max_rows, Len(d.rows))

C6_Witness ==
    /\ event = "summarize_dataframe"
    /\ max_rows = 2
    /\ df = DfFrame([columns |-> <<[name |-> T("age"), dtype |-> "int64"],
                                   [name |-> T("name"), dtype |-> "object"]>>,
                     rows |-> <<<<0, 0>>, <<1, 1>>, <<1, 0>>>>])
    /\ SampleRows(summary[1].buf) = <<<<T("0"), T(","), T("a")>>, <<T("1"), T(","), T("b")>>>>

\* C7 as stated: summarize_dataframe raises on no frame, zero rows and zero columns
\* included, and returns a string.
C7_NeverRaises ==
    event = "summarize_dataframe" =>
        /\ raised = ""
        /\ summary[1].value # None

\* The source a prompt is built from: the journal text, or the summary of the frame.
PromptSource == IF mode = Journal THEN user_text ELSE summary[1].value[1]

MarkupTokens(t) == {t[i] : i \in {j \in 1..Len(t) : IsMarkup(t[j])}}

\* C8 as stated: a prompt of build_journal_prompt or build_table_prompt contains no
\* markup.
C8_NoMarkup == prompt # None => MarkupCount(prompt[1]) = 0

\* C8 amended: a prompt consists of the fixed instructions and exactly one source, the
\* journal text or the dataset summary, inserted as it is; its only markup is the
\* tag <script> that the instructions name and the markup of the source itself.
C8_MarkupOnlyFromSource ==
    prompt # None =>
        /\ Occurrences(<<T("\"\"\"")>> \o PromptSource \o <<T("\"\"\"")>>, prompt[1])
               + Occurrences(<<T("----------------")>> \o PromptSource
                                 \o <<T("----------------")>>, prompt[1]) = 1
        /\ MarkupCount(prompt[1]) = 1 + MarkupCount(PromptSource)
        /\ MarkupTokens(prompt[1]) = {Tag("<script>")} \cup MarkupTokens(PromptSource)

C8_Witness ==
    /\ prompt # None
    /\ mode = Journal
    /\ user_text = <<Tag("<b>"), T("swam")>>
    /\ MarkupCount(prompt[1]) = 2

\* The order of the calls of one request.
Chain ==
    <<IF mode = Journal THEN <<"build_journal_prompt">>
      ELSE <<"build_table_prompt", "summarize_dataframe">>,
      <<"generate_paperscript">>,
      IF GEMINI_API_KEY = "" THEN <<>> ELSE <<"generate_content">>,
      <<"build_paper_html">>,
      <<"components.html">>>>

Accepted ==
    \/ event = "click_generate_visual" /\ ~IsBlank(user_text)
    \/ event = "click_generate_grid"

\* The body of the paperscript element of a document of build_paper_html.
EmbeddedScript(doc) ==
    SubSeq(doc,
           1 + (CHOOSE i \in 1..Len(doc) :
                    /\ doc[i] = ScriptOpen(DefaultCanvasId)
                    /\ \A j \in 1..(i - 1) : doc[j] # ScriptOpen(DefaultCanvasId)),
           Len(doc) - Len(<<ScriptClose, T("</body></html>")>>))

\* C9: an accepted click makes one chain of calls in the order build prompt,
\* generate, wrap, render, each at most once and cut short only by an exception; with
\* a credential exactly one request goes to the remote model, also when it fails;
\* the script in the rendered document is the value this request's generate returned.
C9_OneChainPerClick ==
    /\ Accepted =>
           /\ calls # <<>>
           /\ IsPrefix(calls, Concat(Chain))
           /\ raised = "" <=> calls = Concat(Chain)
           /\ Len(requests) <= 1
           /\ (GEMINI_API_KEY # "" /\ Called("generate_paperscript")) => Len(requests) = 1
           /\ \A i \in 1..Len(requests) :
                  /\ requests[i].request.prompt = prompt[1]
                  /\ requests[i].request.temperature = "0.9"
                  /\ (requests[i].outcome.access = "ok" /\ html # None) =>
                         EmbeddedScript(html[1]) = requests[i].outcome.text
           /\ Called("components.html") <=> html # None
           /\ html # None =>
                  /\ paperscript # None
                  /\ EmbeddedScript(html[1]) = paperscript[1]
    /\ ~Accepted => calls = <<>> /\ requests = <<>> /\ html = None

C9_Witness ==
    /\ event = "click_generate_grid"
    /\ GEMINI_API_KEY # ""
    /\ Len(requests) = 1
    /\ paperscript = Some(<<ScriptClose, CanvasTag("dreamCanvas")>>)
    /\ calls = <<"build_table_prompt", "summarize_dataframe", "generate_paperscript",
                 "generate_content", "build_paper_html", "components.html">>
    /\ EmbeddedScript(html[1]) = <<ScriptClose, CanvasTag("dreamCanvas")>>

\* C10: an error raised by the remote call is not caught by generate_paperscript: it
\* leaves the script, no script is returned, build_paper_html is not called, nothing
\* is rendered, and the fallback script is not put in its place.
C10_TransportErrorPropagates ==
    \A i \in 1..Len(requests) :
        requests[i].outcome.call = "raises" =>
            /\ raised = requests[i].outcome.exc
            /\ paperscript = None
            /\ html = None
            /\ ~Called("build_paper_html")
            /\ ~Called("components.html")
            /\ calls[Len(calls)] = "generate_content"

C10_Witness ==
    /\ event = "click_generate_visual"
    /\ Len(requests) = 1
    /\ requests[1].outcome.call = "raises"
    /\ raised = "ServiceUnavailable"

=============================================================================
